---- MODULE Spec2Model ----
(***************************************************************************)
(* AI Trip Planner: the Streamlit step workflow of app.py (steps 0..3 of   *)
(* st.session_state) and the two LangGraph nodes of agents.py that turn a  *)
(* language-model response into a suitability decision and into a list of *)
(* alternative destinations.                                               *)
(*                                                                         *)
(* Text is modelled as a sequence of tokens, each a record [k, s]:         *)
(*   k = "fence" a code-fence marker (three backticks)                     *)
(*   k = "ws"   a run of whitespace                                        *)
(*   k = "w"    a bare word, s = <<word>>  (json, python, null, prose)     *)
(*   k = "str"  a double-quoted string literal, s = its content as atoms   *)
(*              (an atom may itself be "fence" or "json")                  *)
(*   k \in { "{", "}", "[", "]", ":", "," }  JSON punctuation              *)
(* Python values are records [t, s, keys, kids]: t = "str" (s = atoms),    *)
(* "null" (None), "arr" (kids), "obj" (keys and kids in parallel, in       *)
(* document order) and "unset" (a key that was never assigned).            *)
(***************************************************************************)
EXTENDS Integers, Sequences, FiniteSets, TLC

\* ------------------------------------------------------------ tokens
Fence == [k |-> "fence", s |-> <<>>]
Ws == [k |-> "ws", s |-> <<>>]
Word(w) == [k |-> "w", s |-> <<w>>]
Punct(c) == [k |-> c, s |-> <<>>]
StrTok(atoms) == [k |-> "str", s |-> atoms]

\* ------------------------------------------------------------ values
JUnset == [t |-> "unset", s |-> <<>>, keys |-> <<>>, kids |-> <<>>]
JNull == [t |-> "null", s |-> <<>>, keys |-> <<>>, kids |-> <<>>]
JStr(atoms) == [t |-> "str", s |-> atoms, keys |-> <<>>, kids |-> <<>>]
JArr(elems) == [t |-> "arr", s |-> <<>>, keys |-> <<>>, kids |-> elems]
JObj(ks, vs) == [t |-> "obj", s |-> <<>>, keys |-> ks, kids |-> vs]
PyStr(x) == JStr(<<x>>)
EmptyStr == JStr(<<>>)
EmptyList == JArr(<<>>)

\* Python truthiness of a value (bool(v)).
Truthy(v) ==
  CASE v.t = "str" -> v.s # <<>>
    [] v.t = "arr" -> v.kids # <<>>
    [] v.t = "obj" -> v.keys # <<>>
    [] OTHER -> FALSE

\* ------------------------------------------------------------ str methods
RECURSIVE LStrip(_)
LStrip(t) == IF t # <<>> /\ Head(t).k = "ws" THEN LStrip(Tail(t)) ELSE t

RECURSIVE RStrip(_)
RStrip(t) ==
  IF t # <<>> /\ t[Len(t)].k = "ws" THEN RStrip(SubSeq(t, 1, Len(t) - 1)) ELSE t

\* str.strip()
Strip(t) == RStrip(LStrip(t))

\* str.startswith(fence)
StartsWithFence(t) == t # <<>> /\ t[1].k = "fence"

\* the atoms of a string literal hold the substring fence+json at i
AtomMatch(a, i) == i < Len(a) /\ a[i] = "fence" /\ a[i + 1] = "json"
HasFenceJson(a) == \E i \in 1..Len(a) : AtomMatch(a, i)
FirstAtomMatch(a) ==
  CHOOSE j \in 1..Len(a) : AtomMatch(a, j) /\ \A h \in 1..(j - 1) : ~AtomMatch(a, h)
CutAt(a, i) == SubSeq(a, 1, i - 1) \o SubSeq(a, i + 2, Len(a))
CutFenceJson(a) == CutAt(a, FirstAtomMatch(a))

\* the text holds the substring fence+json starting in token i
TokMatch(t, i) ==
  \/ t[i].k = "str" /\ HasFenceJson(t[i].s)
  \/ t[i].k = "fence" /\ i < Len(t) /\ t[i + 1] = Word("json")

FirstTokMatch(t) ==
  CHOOSE j \in 1..Len(t) : TokMatch(t, j) /\ \A h \in 1..(j - 1) : ~TokMatch(t, h)
ReplaceAt(t, i) ==
  IF t[i].k = "str"
  THEN SubSeq(t, 1, i - 1) \o <<StrTok(CutFenceJson(t[i].s))>>
         \o SubSeq(t, i + 1, Len(t))
  ELSE SubSeq(t, 1, i - 1) \o SubSeq(t, i + 2, Len(t))

\* str.replace(fence+json, "", 1): only the first occurrence, wherever it is
ReplaceFirstFenceJson(t) ==
  IF \E i \in 1..Len(t) : TokMatch(t, i) THEN ReplaceAt(t, FirstTokMatch(t)) ELSE t

IsNotFenceAtom(x) == x # "fence"
IsNotFenceTok(x) == x.k # "fence"

UnfenceAtoms(x) == IF x.k = "str" THEN StrTok(SelectSeq(x.s, IsNotFenceAtom)) ELSE x

\* str.replace(fence, ""): every occurrence, inside string literals too
ReplaceAllFence(t) ==
  SelectSeq([i \in 1..Len(t) |-> UnfenceAtoms(t[i])], IsNotFenceTok)

\* "Clean response" of both nodes: strip, then drop fence markup when the
\* text starts with a fence (the elif branch repeats the if condition and
\* is never taken).
\* CleanStripped without the startswith test: the fence removal runs on
\* every response
CleanStrippedUnguarded(response_text) ==
  ReplaceAllFence(ReplaceFirstFenceJson(response_text))

CleanStripped(response_text) ==
  IF StartsWithFence(response_text)
  THEN ReplaceAllFence(ReplaceFirstFenceJson(response_text))
  ELSE response_text
CleanResponse(content) == CleanStripped(Strip(content))

\* ------------------------------------------------------------ json.loads
ParseFail == [ok |-> FALSE, v |-> JNull, rest |-> <<>>]
ParseOk(v, rest) == [ok |-> TRUE, v |-> v, rest |-> rest]

RECURSIVE ParseValue(_)
RECURSIVE ParseElements(_, _)
RECURSIVE ParseMembers(_, _, _)

\* after "[": "]" or the elements
ParseArray(u) ==
  IF u # <<>> /\ Head(u).k = "]" THEN ParseOk(EmptyList, Tail(u))
  ELSE ParseElements(u, <<>>)

\* after "{": "}" or the members
ParseObject(u) ==
  IF u # <<>> /\ Head(u).k = "}" THEN ParseOk(JObj(<<>>, <<>>), Tail(u))
  ELSE ParseMembers(u, <<>>, <<>>)

\* a value at the head of t (whitespace skipped)
ParseValueAt(t) ==
  IF t = <<>> THEN ParseFail
  ELSE CASE Head(t).k = "str" -> ParseOk(JStr(Head(t).s), Tail(t))
         [] Head(t).k = "w" ->
              IF Head(t).s = <<"null">> THEN ParseOk(JNull, Tail(t)) ELSE ParseFail
         [] Head(t).k = "[" -> ParseArray(LStrip(Tail(t)))
         [] Head(t).k = "{" -> ParseObject(LStrip(Tail(t)))
         [] OTHER -> ParseFail

ParseValue(t0) == ParseValueAt(LStrip(t0))

\* after an element v: "," and more elements, or "]"
ElementEnd(v, u, acc) ==
  IF u = <<>> THEN ParseFail
  ELSE CASE Head(u).k = "," -> ParseElements(Tail(u), Append(acc, v))
         [] Head(u).k = "]" -> ParseOk(JArr(Append(acc, v)), Tail(u))
         [] OTHER -> ParseFail

Element(r, acc) == IF ~r.ok THEN ParseFail ELSE ElementEnd(r.v, LStrip(r.rest), acc)

\* after "[" or ",": a value, then "," or "]"
ParseElements(t, acc) == Element(ParseValue(t), acc)

\* after a member key: v: "," and more members, or "}"
MemberEnd(key, v, u, ks, vs) ==
  IF u = <<>> THEN ParseFail
  ELSE CASE Head(u).k = "," -> ParseMembers(Tail(u), Append(ks, key), Append(vs, v))
         [] Head(u).k = "}" -> ParseOk(JObj(Append(ks, key), Append(vs, v)), Tail(u))
         [] OTHER -> ParseFail

MemberValue(key, r, ks, vs) ==
  IF ~r.ok THEN ParseFail ELSE MemberEnd(key, r.v, LStrip(r.rest), ks, vs)

MemberColon(key, c, ks, vs) ==
  IF c = <<>> \/ Head(c).k # ":" THEN ParseFail
  ELSE MemberValue(key, ParseValue(Tail(c)), ks, vs)

MemberKey(t, ks, vs) ==
  IF t = <<>> \/ Head(t).k # "str" THEN ParseFail
  ELSE MemberColon(Head(t).s, LStrip(Tail(t)), ks, vs)

\* after "{" or ",": a string key, ":", a value, then "," or "}"
ParseMembers(t0, ks, vs) == MemberKey(LStrip(t0), ks, vs)

\* json.loads(text): ok = FALSE stands for json.JSONDecodeError
Loaded(r) ==
  IF r.ok /\ LStrip(r.rest) = <<>> THEN [ok |-> TRUE, v |-> r.v]
  ELSE [ok |-> FALSE, v |-> JNull]
json_loads(text) == Loaded(ParseValue(text))

\* dict.get(key, default); a later duplicate key wins, as in json.loads
KeyHits(obj, key) == {i \in 1..Len(obj.keys) : obj.keys[i] = <<key>>}
LastHit(obj, hits, default) ==
  IF hits = {} THEN default ELSE obj.kids[CHOOSE i \in hits : \A j \in hits : j <= i]
DictGet(obj, key, default) == LastHit(obj, KeyHits(obj, key), default)

\* ------------------------------------------------------------ agents.py
\* The result of llm.invoke: it raises, or response.content is a text.
\* A text is either given raw or is the JSON document of a value, as the
\* model writes it (compact or with whitespace), inside a wrapping.
Sp(spaced) == IF spaced THEN <<Ws>> ELSE <<>>

RECURSIVE Serialize(_, _)
RECURSIVE SerElems(_, _, _)
RECURSIVE SerMembers(_, _, _)

Serialize(v, spaced) ==
  CASE v.t = "str" -> <<StrTok(v.s)>>
    [] v.t = "arr" -> <<Punct("[")>> \o SerElems(v.kids, 1, spaced) \o <<Punct("]")>>
    [] v.t = "obj" ->
         <<Punct("{")>> \o Sp(spaced) \o SerMembers(v, 1, spaced)
           \o Sp(spaced) \o <<Punct("}")>>
    [] OTHER -> <<Word("null")>>

SerElems(kids, i, spaced) ==
  IF i > Len(kids) THEN <<>>
  ELSE (IF i > 1 THEN <<Punct(",")>> \o Sp(spaced) ELSE <<>>)
         \o Serialize(kids[i], spaced) \o SerElems(kids, i + 1, spaced)

SerMembers(v, i, spaced) ==
  IF i > Len(v.keys) THEN <<>>
  ELSE (IF i > 1 THEN <<Punct(",")>> \o Sp(spaced) ELSE <<>>)
         \o <<StrTok(v.keys[i]), Punct(":")>> \o Sp(spaced)
         \o Serialize(v.kids[i], spaced) \o SerMembers(v, i + 1, spaced)

\* The markup a model puts around its answer.
Wrappings ==
  {"plain", "padded", "fence_json", "fence", "fence_tag", "fence_json_open"}
FencedWrappings == {"fence_json", "fence", "fence_tag"}

Wrap(w, text) ==
  CASE w = "padded" -> <<Ws>> \o text \o <<Ws>>
    [] w = "fence_json" -> <<Fence, Word("json"), Ws>> \o text \o <<Ws, Fence>>
    [] w = "fence" -> <<Fence, Ws>> \o text \o <<Ws, Fence>>
    [] w = "fence_tag" -> <<Fence, Word("python"), Ws>> \o text \o <<Ws, Fence>>
    [] w = "fence_json_open" -> <<Ws, Fence, Word("json"), Ws>> \o text
    [] OTHER -> text

LlmRaises == [raises |-> TRUE, kind |-> "raw", value |-> JNull, raw |-> <<>>,
              wrap |-> "plain", spaced |-> FALSE]
LlmValue(v, w, spaced) ==
  [raises |-> FALSE, kind |-> "value", value |-> v, raw |-> <<>>,
   wrap |-> w, spaced |-> spaced]
LlmRaw(text, w) ==
  [raises |-> FALSE, kind |-> "raw", value |-> JNull, raw |-> text,
   wrap |-> w, spaced |-> FALSE]

\* response.content
Content(out) ==
  Wrap(out.wrap, IF out.kind = "value" THEN Serialize(out.value, out.spaced)
                 ELSE out.raw)

\* WeatherDecisionState / AlternativeState fields written by the nodes
FallbackParse ==
  [decision |-> PyStr("SUITABLE"),
   reasoning |-> PyStr("Unable to parse weather analysis, proceeding with caution"),
   concerns |-> EmptyList,
   recommendation |-> PyStr("Review weather data manually before traveling")]

FallbackAnalyze ==
  [decision |-> PyStr("SUITABLE"),
   reasoning |-> PyStr("Unable to analyze weather, proceeding with caution"),
   concerns |-> EmptyList,
   recommendation |-> PyStr("Review weather data manually")]

UnsetDecision ==
  [decision |-> JUnset, reasoning |-> JUnset, concerns |-> JUnset,
   recommendation |-> JUnset]

\* the try block of analyze_weather_node after llm.invoke returned: parsed
\* is what json.loads made of the cleaned text; exc names the exception the
\* block ends in
AnalyzeParsed(parsed) ==
  IF ~parsed.ok THEN [exc |-> "JSONDecodeError", state |-> UnsetDecision]
  ELSE IF parsed.v.t # "obj" THEN [exc |-> "AttributeError", state |-> UnsetDecision]
  ELSE [exc |-> "none",
        state |->
          [decision |-> DictGet(parsed.v, "decision", PyStr("SUITABLE")),
           reasoning |-> DictGet(parsed.v, "reasoning",
                                 PyStr("Weather conditions analyzed")),
           concerns |-> DictGet(parsed.v, "concerns", EmptyList),
           recommendation |-> DictGet(parsed.v, "recommendation",
                                      PyStr("Proceed with your trip"))]]

AnalyzeTry(out) ==
  IF out.raises THEN [exc |-> "Exception", state |-> UnsetDecision]
  ELSE AnalyzeParsed(json_loads(CleanResponse(Content(out))))

\* AnalyzeExcept with only "except json.JSONDecodeError"
AnalyzeExceptJsonOnly(r) ==
  IF r.exc = "JSONDecodeError" THEN [exc |-> "none", state |-> FallbackParse] ELSE r

\* the two except clauses of analyze_weather_node
AnalyzeExcept(r) ==
  CASE r.exc = "none" -> r
    [] r.exc = "JSONDecodeError" -> [exc |-> "none", state |-> FallbackParse]
    [] OTHER -> [exc |-> "none", state |-> FallbackAnalyze]

analyze_weather_node(out) == AnalyzeExcept(AnalyzeTry(out))

\* the try block of generate_alternatives_node after llm.invoke returned
AlternativesParsed(parsed) ==
  IF ~parsed.ok THEN [exc |-> "JSONDecodeError", alternatives |-> JUnset]
  ELSE IF parsed.v.t # "obj" THEN [exc |-> "AttributeError", alternatives |-> JUnset]
  ELSE [exc |-> "none",
        alternatives |-> DictGet(parsed.v, "alternatives", EmptyList)]

AlternativesTry(out) ==
  IF out.raises THEN [exc |-> "Exception", alternatives |-> JUnset]
  ELSE AlternativesParsed(json_loads(CleanResponse(Content(out))))

\* the two except clauses of generate_alternatives_node
AlternativesExcept(r) ==
  IF r.exc = "none" THEN r ELSE [exc |-> "none", alternatives |-> EmptyList]

generate_alternatives_node(out) == AlternativesExcept(AlternativesTry(out))

\* agent_weather_decision / agent_suggest_alternatives, as app.py imports
\* them: run the node on a fresh state and hand back what it wrote.
agent_weather_decision(out) == analyze_weather_node(out)
agent_suggest_alternatives(out) == generate_alternatives_node(out)

\* ------------------------------------------------------------ session
VARIABLES
  session_state,   \* st.session_state
  screen,          \* the buttons the last script run rendered
  rerun,           \* st.rerun() was called: the script runs again at once
  handled,         \* the button whose handler the last script run executed
  error,           \* the st.error of app.py the last script run showed
  calls,           \* the external calls of the last script run, in order
  agent_call,      \* node under test and the llm outcome it is given
  agent_result,    \* what the node under test returned
  decided_for,     \* the destination and date the stored decision was made for
  fault,           \* the provider call that failed in the last script run
  os_environ,      \* os.environ of the server process, shared by all sessions
  sessions         \* the script threads of the sessions on one server

vars == <<session_state, screen, rerun, handled, error, calls,
          agent_call, agent_result, decided_for, fault, os_environ, sessions>>

NoDecision ==
  [none |-> TRUE, decision |-> JNull, reasoning |-> JNull, concerns |-> JNull,
   recommendation |-> JNull]
SomeDecision(d) ==
  [none |-> FALSE, decision |-> d.decision, reasoning |-> d.reasoning,
   concerns |-> d.concerns, recommendation |-> d.recommendation]

NoDate == "unset"
NoDuration == 0

\* config.py: the keys initialised on the first run; the trip context keys
\* do not exist until step 1 stores them
InitialSession ==
  [step |-> 0, weather_data |-> JNull, agent_decision |-> NoDecision,
   itinerary_data |-> JNull, api_keys_configured |-> FALSE,
   google_api_key |-> "", weather_api_key |-> "", serper_api_key |-> "",
   alternative_suggestions |-> EmptyList,
   starting_city |-> JUnset, destination_city |-> JUnset,
   travel_date |-> NoDate, duration |-> NoDuration,
   start_city |-> JUnset, dest_city |-> JUnset]

\* ------------------------------------------------------------ widgets
Btn(name) == [id |-> name, idx |-> 0, city |-> JNull]
AltBtn(idx, alt) == [id |-> "alt", idx |-> idx, city |-> DictGet(alt, "city", JNull)]
NoClick == Btn("none")

\* st.button returns True in the run its click started when the widget
\* rendered now has the identity of the widget that was clicked. Only the
\* "Choose <city>" buttons have a key (alt_<idx>); the others are told
\* apart by their label.
Pressed(click, b) == click.id = b.id /\ click.idx = b.idx /\ click.city = b.city

\* A keyed button whose label changed between two runs: Streamlit builds
\* that identify a widget by its key alone take it for the clicked one
\* (by_key), builds that hash the label into the identity do not.
PressedKeyed(click, b, by_key) ==
  /\ click.id = b.id
  /\ click.idx = b.idx
  /\ (by_key \/ click.city = b.city)

RunResult(ss, shown, again, h, e, c) ==
  [ss |-> ss, screen |-> shown, rerun |-> again, handled |-> h, error |-> e,
   calls |-> c]

\* a handler that ends in st.rerun()
Rerun(ss, h, e, c) == RunResult(ss, {}, TRUE, h, e, c)

\* ------------------------------------------------------------ inputs
KeyInputs == {"", "key"}
StartingCityInputs == {EmptyStr, PyStr("Mumbai")}
DestinationCityInputs == {EmptyStr, PyStr("Paris")}
TravelDates == {"2025-08-01", "2025-08-02"}
Durations == {5}

\* initialize_tools as app.py calls it: the agent, tools and llm ("ok"),
\* (None, None, None) from its except clause ("none"), or the call itself
\* raises ("raise": app.py passes three arguments, the definition in
\* tools.py takes four)
InitOutcomes == {"ok", "none", "raise"}
KeyIdentityBuilds == BOOLEAN

\* tools[0].func(query): the weather text for the query, or it raises
WeatherOutcomes == {"ok", "raise"}
Fstr(v) == IF v.t = "str" THEN v.s ELSE <<"None">>
WeatherText(city) == JStr(<<"Weather in">> \o Fstr(city))

\* get_*_table and generate_trip_plan of render_itinerary_tabs
SearchOutcomes == {"ok", "raise"}
ComposerOutcomes == {"ok", "raise"}
\* result.content of generate_trip_plan: free text, opaque to the workflow
TripPlan == PyStr("Day 1: Arrival")

\* the JSON documents the prompts of agents.py ask the model for
DecisionObj(d, r, c, rec) ==
  JObj(<< <<"decision">>, <<"reasoning">>, <<"concerns">>, <<"recommendation">> >>,
       <<d, r, c, rec>>)
AltObj(city, reason, weather) ==
  JObj(<< <<"city">>, <<"reason">>, <<"expected_weather">> >>,
       <<city, reason, weather>>)
Alt(city) == AltObj(PyStr(city), PyStr("Similar sights"), PyStr("Sunny"))
AlternativesObj(list) == JObj(<< <<"alternatives">> >>, <<list>>)
Prose == <<Word("Sorry"), Ws, Word("I"), Ws, Word("cannot"), Ws, Word("answer")>>

\* what llm.invoke gives the judge during the workflow
JudgeOutcomes ==
  { LlmRaises,
    LlmValue(DecisionObj(PyStr("SUITABLE"), PyStr("Clear skies"), EmptyList,
                         PyStr("Enjoy")), "plain", FALSE),
    LlmValue(DecisionObj(PyStr("NOT_SUITABLE"), PyStr("Heavy storms"),
                         JArr(<<PyStr("storm"), PyStr("wind")>>),
                         PyStr("Postpone")), "fence_json", TRUE),
    LlmValue(DecisionObj(JNull, PyStr("Hard to say"), EmptyList, PyStr("Check")),
             "plain", TRUE) }

\* what llm.invoke gives the finder during the workflow
FinderOutcomes ==
  { LlmRaises,
    LlmValue(AlternativesObj(JArr(<<Alt("Rome"), Alt("Nice")>>)), "fence_json", TRUE),
    LlmValue(AlternativesObj(
               JArr(<<Alt("Nice"), AltObj(EmptyStr, PyStr("Anywhere"), PyStr("Mild"))>>)),
             "plain", FALSE),
    LlmValue(AlternativesObj(JArr(<<Alt("Rome"),
                                    JObj(<< <<"city">> >>, <<PyStr("Oslo")>>)>>)),
             "plain", FALSE) }

\* the two agents on each outcome of the workflow's model calls (the same
\* outcome always gives the same result, so each is computed once)
WeatherDecisions == [out \in JudgeOutcomes |-> agent_weather_decision(out)]
AlternativeSuggestions == [out \in FinderOutcomes |-> agent_suggest_alternatives(out)]

\* ------------------------------------------------------------ app.py
\* Streamlit drops the state of a keyed widget that a run did not render
DropStep1Widgets(ss) == [ss EXCEPT !.start_city = JUnset, !.dest_city = JUnset]

\* Step 0 -----------------------------------------------------------------
Step0Buttons == {Btn("save_keys")}

\* the body of "Save Keys & Continue"
SaveKeysClick(ss, google_key, weather_key, serper_key, init) ==
  IF google_key = "" \/ weather_key = "" \/ serper_key = ""
  THEN RunResult(ss, Step0Buttons, FALSE, "save_keys", "keys_missing", <<>>)
  ELSE LET ss1 == [ss EXCEPT !.google_api_key = google_key,
                             !.weather_api_key = weather_key,
                             !.serper_api_key = serper_key]
       IN CASE init = "ok" ->
                 Rerun([ss1 EXCEPT !.api_keys_configured = TRUE, !.step = 1],
                       "save_keys", "none", <<"initialize_tools">>)
            [] init = "none" ->
                 RunResult(ss1, Step0Buttons, FALSE, "save_keys", "init_failed",
                           <<"initialize_tools">>)
            [] OTHER ->
                 RunResult(ss1, Step0Buttons, FALSE, "save_keys", "validate_error",
                           <<"initialize_tools">>)

Step0Run(ss0, click, google_key, weather_key, serper_key, init) ==
  LET ss == DropStep1Widgets(ss0)
  IN IF Pressed(click, Btn("save_keys"))
     THEN SaveKeysClick(ss, google_key, weather_key, serper_key, init)
     ELSE RunResult(ss, Step0Buttons, FALSE, "none", "none", <<>>)

\* Step 1 -----------------------------------------------------------------
Step1Buttons == {Btn("analyze"), Btn("change_keys")}

\* AnalyzeWeatherClick with "and" for "or" in the validation
AnalyzeWeatherClickAnd(ss, travel_date, duration) ==
  IF ~Truthy(ss.start_city) /\ ~Truthy(ss.dest_city)
  THEN RunResult(ss, Step1Buttons, FALSE, "analyze", "fill_fields", <<>>)
  ELSE Rerun([ss EXCEPT !.starting_city = ss.start_city,
                        !.destination_city = ss.dest_city,
                        !.travel_date = travel_date,
                        !.duration = duration,
                        !.step = 2],
             "analyze", "none", <<>>)

\* the body of "Let AI Analyze Weather"; ss.start_city and ss.dest_city
\* are the values of the two text inputs (their widget keys)
AnalyzeWeatherClick(ss, travel_date, duration) ==
  IF ~Truthy(ss.start_city) \/ ~Truthy(ss.dest_city)
  THEN RunResult(ss, Step1Buttons, FALSE, "analyze", "fill_fields", <<>>)
  ELSE Rerun([ss EXCEPT !.starting_city = ss.start_city,
                        !.destination_city = ss.dest_city,
                        !.travel_date = travel_date,
                        !.duration = duration,
                        !.step = 2],
             "analyze", "none", <<>>)

\* the body of "Change API Keys" (steps 1 and 3) and "Update API Keys"
ChangeApiKeysClick(ss, h, e, c) == Rerun([ss EXCEPT !.step = 0], h, e, c)

\* sc, dc, d, n: what the user typed before the click. A run that no click
\* on "Let AI Analyze Weather" started reads none of them.
Step1Run(ss0, click, sc, dc, d, n) ==
  IF Pressed(click, Btn("analyze"))
  THEN AnalyzeWeatherClick([ss0 EXCEPT !.start_city = sc, !.dest_city = dc], d, n)
  ELSE IF Pressed(click, Btn("change_keys"))
  THEN ChangeApiKeysClick(DropStep1Widgets(ss0), "change_keys", "none", <<>>)
  ELSE RunResult(DropStep1Widgets(ss0), Step1Buttons, FALSE, "none", "none", <<>>)

\* Step 2 -----------------------------------------------------------------
\* the body of "Go Back" (steps 2 and 3)
GoBackClick(ss, e, c) == Rerun([ss EXCEPT !.step = 1], "go_back", e, c)

\* Step2Except with an except clause that sends the user back by itself
Step2ExceptResets(ss, click, shown, c) ==
  Rerun([ss EXCEPT !.step = 1], "none", "weather_error", c)

\* the except clause of step 2; shown are the buttons rendered before the
\* exception
Step2Except(ss, click, shown, c) ==
  IF Pressed(click, Btn("go_back")) THEN GoBackClick(ss, "weather_error", c)
  ELSE IF Pressed(click, Btn("update_keys"))
  THEN ChangeApiKeysClick(ss, "update_keys", "weather_error", c)
  ELSE RunResult(ss, shown \cup {Btn("go_back"), Btn("update_keys")}, FALSE,
                 "none", "weather_error", c)

\* the else branch of "if agent and tools and llm"
Step2NoTools(ss, click, c) ==
  IF Pressed(click, Btn("update_keys"))
  THEN ChangeApiKeysClick(ss, "update_keys", "init_failed", c)
  ELSE RunResult(ss, {Btn("update_keys")}, FALSE, "none", "init_failed", c)

\* render_alternative_card reads alt['city'], alt['reason'] and
\* alt['expected_weather']
HasKey(v, key) == \E i \in 1..Len(v.keys) : v.keys[i] = <<key>>
CardRenders(alt) ==
  /\ alt.t = "obj"
  /\ HasKey(alt, "city") /\ HasKey(alt, "reason") /\ HasKey(alt, "expected_weather")

\* what "for idx, alt in enumerate(alternatives, 1)" iterates over: the
\* elements of a list, the characters of a str, the keys of a dict
Iterate(v) ==
  CASE v.t = "arr" -> v.kids
    [] v.t = "str" -> [i \in 1..Len(v.s) |-> PyStr(v.s[i])]
    [] v.t = "obj" -> [i \in 1..Len(v.keys) |-> JStr(v.keys[i])]
    [] OTHER -> <<>>

\* the loop over the alternatives: it ends ("done"), a card raises
\* ("raise") or the clicked "Choose <city>" button is reached ("chosen")
RECURSIVE AlternativesLoop(_, _, _, _, _)
AlternativesLoop(elems, idx, click, shown, by_key) ==
  IF idx > Len(elems) THEN [kind |-> "done", city |-> JNull, shown |-> shown]
  ELSE LET alt == elems[idx]
       IN IF ~CardRenders(alt)
          THEN [kind |-> "raise", city |-> JNull, shown |-> shown]
          ELSE IF PressedKeyed(click, AltBtn(idx, alt), by_key)
          THEN [kind |-> "chosen", city |-> DictGet(alt, "city", JNull),
                shown |-> shown]
          ELSE AlternativesLoop(elems, idx + 1, click,
                                shown \cup {AltBtn(idx, alt)}, by_key)

\* the body of "Choose <city>"
ChooseAlternativeClick(ss, city, c) ==
  Rerun([ss EXCEPT !.destination_city = city, !.step = 2], "alt", "none", c)

\* the bodies of "Try Different Date" and "Choose Different City"
TryDifferentDateClick(ss, c) == Rerun([ss EXCEPT !.step = 1], "try_date", "none", c)
ChooseDifferentCityClick(ss, c) == Rerun([ss EXCEPT !.step = 1], "diff_city", "none", c)

\* the body of "Continue Anyway"
ContinueAnywayClick(ss, c) == Rerun([ss EXCEPT !.step = 3], "continue", "none", c)

Step2Buttons == {Btn("try_date"), Btn("diff_city"), Btn("continue")}

\* the else branch of the verdict test: concerns, alternatives, buttons
Step2NotSuitable(ss, click, finder, c0, by_key) ==
  LET a == AlternativeSuggestions[finder]
      c == Append(c0, "finder")
  IN IF a.exc # "none" THEN Step2Except(ss, click, {}, c)
     ELSE
       LET alternatives == a.alternatives
           ss1 == [ss EXCEPT !.alternative_suggestions = alternatives]
           loop == IF Truthy(alternatives)
                   THEN AlternativesLoop(Iterate(alternatives), 1, click, {}, by_key)
                   ELSE [kind |-> "done", city |-> JNull, shown |-> {}]
       IN CASE loop.kind = "chosen" -> ChooseAlternativeClick(ss1, loop.city, c)
            [] loop.kind = "raise" -> Step2Except(ss1, click, loop.shown, c)
            [] OTHER ->
                 IF Pressed(click, Btn("try_date")) THEN TryDifferentDateClick(ss1, c)
                 ELSE IF Pressed(click, Btn("diff_city"))
                 THEN ChooseDifferentCityClick(ss1, c)
                 ELSE IF Pressed(click, Btn("continue"))
                 THEN ContinueAnywayClick(ss1, c)
                 ELSE RunResult(ss1, loop.shown \cup Step2Buttons, FALSE,
                                "none", "none", c)

\* Step2Suitable that shows the verdict and waits for a press
Step2SuitableWaits(ss, c) ==
  RunResult(ss, {Btn("continue")}, FALSE, "none", "none", c)

\* "if decision['decision'] == SUITABLE": the automatic move to step 3
Step2Suitable(ss, c) == Rerun([ss EXCEPT !.step = 3], "none", "none", c)

\* Step2Decide without "st.session_state.agent_decision = decision"
Step2DecideNotStored(ss, click, judge, finder, c0, by_key) ==
  IF WeatherDecisions[judge].exc # "none"
  THEN Step2Except(ss, click, {}, Append(c0, "judge"))
  ELSE IF WeatherDecisions[judge].state.decision = PyStr("SUITABLE")
  THEN Step2Suitable(ss, Append(c0, "judge"))
  ELSE Step2NotSuitable(ss, click, finder, Append(c0, "judge"), by_key)

\* after the weather fetch returned: the judge and the verdict branch
Step2Decide(ss, click, judge, finder, c0, by_key) ==
  LET r == WeatherDecisions[judge]
      c == Append(c0, "judge")
  IN IF r.exc # "none" THEN Step2Except(ss, click, {}, c)
     ELSE LET decision == r.state
              ss1 == [ss EXCEPT !.agent_decision = SomeDecision(decision)]
          IN IF decision.decision = PyStr("SUITABLE")
             THEN Step2Suitable(ss1, c)
             ELSE Step2NotSuitable(ss1, click, finder, c, by_key)

\* Step2Run with the weather fetch wrapped in a try of its own: a failed
\* fetch leaves weather_data alone and the run goes on to the judge
Step2RunSkipsWeatherFault(ss0, click, init, weather, judge, finder, by_key) ==
  CASE init = "raise" ->
         Step2Except(DropStep1Widgets(ss0), click, {}, <<"initialize_tools">>)
    [] init = "none" ->
         Step2NoTools(DropStep1Widgets(ss0), click, <<"initialize_tools">>)
    [] OTHER ->
         Step2Decide(DropStep1Widgets(ss0), click, judge, finder,
                     <<"initialize_tools", "weather">>, by_key)

Step2Run(ss0, click, init, weather, judge, finder, by_key) ==
  LET ss == DropStep1Widgets(ss0)
  IN CASE init = "raise" -> Step2Except(ss, click, {}, <<"initialize_tools">>)
       [] init = "none" -> Step2NoTools(ss, click, <<"initialize_tools">>)
       [] OTHER ->
            IF weather = "raise"
            THEN Step2Except(ss, click, {}, <<"initialize_tools", "weather">>)
            ELSE Step2Decide(
                   [ss EXCEPT !.weather_data = WeatherText(ss.destination_city)],
                   click, judge, finder, <<"initialize_tools", "weather">>, by_key)

\* Step 3 -----------------------------------------------------------------
Step3Buttons == {Btn("plan_another"), Btn("change_keys"), Btn("download")}

\* the except clause of step 3
Step3Except(ss, click, c) ==
  IF Pressed(click, Btn("go_back")) THEN GoBackClick(ss, "trip_error", c)
  ELSE IF Pressed(click, Btn("update_keys"))
  THEN ChangeApiKeysClick(ss, "update_keys", "trip_error", c)
  ELSE RunResult(ss, {Btn("go_back"), Btn("update_keys")}, FALSE,
                 "none", "trip_error", c)

\* PlanAnotherTripClick without the itinerary_data assignment
PlanAnotherTripKeepsItinerary(ss, c) ==
  Rerun([ss EXCEPT !.step = 1, !.weather_data = JNull,
                   !.agent_decision = NoDecision],
        "plan_another", "none", c)

\* the body of "Plan Another Trip"
PlanAnotherTripClick(ss, c) ==
  Rerun([ss EXCEPT !.step = 1, !.weather_data = JNull,
                   !.agent_decision = NoDecision, !.itinerary_data = JNull],
        "plan_another", "none", c)

SearchCalls ==
  <<"get_flights_table", "get_hotels_table", "get_attractions_table">>

\* render_itinerary_tabs with a composer failure replaced by a stock plan
render_itinerary_tabs_default_plan(ss, search, composer, c0) ==
  IF ss.agent_decision.none
  THEN [exc |-> "TypeError", ss |-> ss, calls |-> c0]
  ELSE IF search = "raise"
  THEN [exc |-> "Exception", ss |-> ss,
        calls |-> Append(c0, "get_flights_table")]
  ELSE [exc |-> "none",
        ss |-> [ss EXCEPT !.itinerary_data =
                  IF composer = "raise" THEN PyStr("Plan unavailable") ELSE TripPlan],
        calls |-> c0 \o SearchCalls \o SearchCalls \o <<"generate_trip_plan">>]

\* render_itinerary_tabs: the three tables for the tabs, the three tables
\* again for the plan, then generate_trip_plan; nothing is caught
render_itinerary_tabs(ss, search, composer, c0) ==
  IF ss.agent_decision.none
  THEN [exc |-> "TypeError", ss |-> ss, calls |-> c0]
  ELSE IF search = "raise"
  THEN [exc |-> "Exception", ss |-> ss,
        calls |-> Append(c0, "get_flights_table")]
  ELSE IF composer = "raise"
  THEN [exc |-> "Exception", ss |-> ss,
        calls |-> c0 \o SearchCalls \o SearchCalls \o <<"generate_trip_plan">>]
  ELSE [exc |-> "none",
        ss |-> [ss EXCEPT !.itinerary_data = TripPlan],
        calls |-> c0 \o SearchCalls \o SearchCalls \o <<"generate_trip_plan">>]

Step3Run(ss0, click, init, search, composer) ==
  LET ss == DropStep1Widgets(ss0)
      c0 == <<"initialize_tools">>
  IN CASE init = "raise" -> Step3Except(ss, click, c0)
       [] init = "none" -> RunResult(ss, {}, FALSE, "none", "none", c0)
       [] OTHER ->
            LET r == render_itinerary_tabs(ss, search, composer, c0)
            IN IF r.exc # "none" THEN Step3Except(r.ss, click, r.calls)
               ELSE IF Pressed(click, Btn("plan_another"))
               THEN PlanAnotherTripClick(r.ss, r.calls)
               ELSE IF Pressed(click, Btn("change_keys"))
               THEN ChangeApiKeysClick(r.ss, "change_keys", "none", r.calls)
               ELSE IF Pressed(click, Btn("download"))
               THEN RunResult(r.ss, Step3Buttons, FALSE, "download", "none", r.calls)
               ELSE RunResult(r.ss, Step3Buttons, FALSE, "none", "none", r.calls)

\* ------------------------------------------------------------ actions
InCalls(name, c) == \E i \in 1..Len(c) : c[i] = name

\* the (destination, date) arguments of the agent_weather_decision call
\* whose result is stored
NoAnalysis == [city |-> JUnset, date |-> NoDate]
AnalysisOf(ss) == [city |-> ss.destination_city, date |-> ss.travel_date]

Commit(r) ==
  /\ session_state' = r.ss
  /\ screen' = r.screen
  /\ rerun' = r.rerun
  /\ handled' = r.handled
  /\ error' = r.error
  /\ calls' = r.calls
  /\ decided_for' =
       IF r.ss.agent_decision.none THEN NoAnalysis
       ELSE IF InCalls("judge", r.calls) THEN AnalysisOf(session_state)
       ELSE decided_for
  /\ UNCHANGED <<agent_call, agent_result, os_environ, sessions>>

\* The provider call of a run that failed: initialize_tools raised
\* ("initialize_tools") or returned no tools ("no_tools"), the weather
\* fetch, a travel-data fetch ("search") or generate_trip_plan ("composer")
\* raised.
InitFault(init) ==
  CASE init = "raise" -> "initialize_tools"
    [] init = "none" -> "no_tools"
    [] OTHER -> "none"

Step0Fault(click, w) ==
  IF Pressed(click, Btn("save_keys")) /\ w[1] # "" /\ w[2] # "" /\ w[3] # ""
  THEN InitFault(w[4]) ELSE "none"

Step2Fault(w) ==
  IF w[1] # "ok" THEN InitFault(w[1])
  ELSE IF w[2] = "raise" THEN "weather" ELSE "none"

Step3Fault(ss, w) ==
  IF w[1] # "ok" THEN InitFault(w[1])
  ELSE IF ss.agent_decision.none THEN "none"
  ELSE IF w[2] = "raise" THEN "search"
  ELSE IF w[3] = "raise" THEN "composer" ELSE "none"

\* The outcomes of the external calls of one run. A call that is not
\* reached has no outcome to choose, so each set lists only the
\* combinations that differ in a call the run makes.
Step0Worlds ==
  {w \in KeyInputs \X KeyInputs \X KeyInputs \X InitOutcomes :
     (w[1] = "" \/ w[2] = "" \/ w[3] = "") => w[4] = "ok"}

Step1Worlds ==
  StartingCityInputs \X DestinationCityInputs \X TravelDates \X Durations

Step2Worlds ==
  ({"none", "raise"} \X {"raise"} \X {LlmRaises} \X {LlmRaises} \X {FALSE})
    \cup ({"ok"} \X {"raise"} \X {LlmRaises} \X {LlmRaises} \X {FALSE})
    \cup ({"ok"} \X {"ok"} \X JudgeOutcomes \X FinderOutcomes \X KeyIdentityBuilds)

Step3Worlds ==
  ({"none", "raise"} \X {"raise"} \X {"raise"})
    \cup ({"ok"} \X {"raise"} \X {"raise"})
    \cup ({"ok"} \X {"ok"} \X ComposerOutcomes)

\* one run of the script, started by a click or by st.rerun()
RunStep0(click) ==
  /\ session_state.step = 0
  /\ \E w \in Step0Worlds :
       /\ Commit(Step0Run(session_state, click, w[1], w[2], w[3], w[4]))
       /\ fault' = Step0Fault(click, w)

RunStep1(click) ==
  /\ session_state.step = 1
  /\ \E w \in Step1Worlds :
       /\ Commit(Step1Run(session_state, click, w[1], w[2], w[3], w[4]))
       /\ fault' = "none"

RunStep2(click) ==
  /\ session_state.step = 2
  /\ \E w \in Step2Worlds :
       /\ Commit(Step2Run(session_state, click, w[1], w[2], w[3], w[4], w[5]))
       /\ fault' = Step2Fault(w)

RunStep3(click) ==
  /\ session_state.step = 3
  /\ \E w \in Step3Worlds :
       /\ Commit(Step3Run(session_state, click, w[1], w[2], w[3]))
       /\ fault' = Step3Fault(DropStep1Widgets(session_state), w)

\* the user can click a button the last run rendered, once the script is idle
CanClick(b) == ~rerun /\ b \in screen

SaveKeysAndContinue == CanClick(Btn("save_keys")) /\ RunStep0(Btn("save_keys"))
LetAIAnalyzeWeather == CanClick(Btn("analyze")) /\ RunStep1(Btn("analyze"))
ChangeAPIKeysStep1 == CanClick(Btn("change_keys")) /\ RunStep1(Btn("change_keys"))
ChooseAlternative == \E b \in screen : b.id = "alt" /\ CanClick(b) /\ RunStep2(b)
TryDifferentDate == CanClick(Btn("try_date")) /\ RunStep2(Btn("try_date"))
ChooseDifferentCity == CanClick(Btn("diff_city")) /\ RunStep2(Btn("diff_city"))
ContinueAnyway == CanClick(Btn("continue")) /\ RunStep2(Btn("continue"))
GoBackStep2 == CanClick(Btn("go_back")) /\ RunStep2(Btn("go_back"))
UpdateAPIKeysStep2 == CanClick(Btn("update_keys")) /\ RunStep2(Btn("update_keys"))
PlanAnotherTrip == CanClick(Btn("plan_another")) /\ RunStep3(Btn("plan_another"))
ChangeAPIKeysStep3 == CanClick(Btn("change_keys")) /\ RunStep3(Btn("change_keys"))
DownloadItinerary == CanClick(Btn("download")) /\ RunStep3(Btn("download"))
GoBackStep3 == CanClick(Btn("go_back")) /\ RunStep3(Btn("go_back"))
UpdateAPIKeysStep3 == CanClick(Btn("update_keys")) /\ RunStep3(Btn("update_keys"))

\* st.rerun(): the script runs again with no click
RerunStep0 == rerun /\ RunStep0(NoClick)
RerunStep1 == rerun /\ RunStep1(NoClick)
RerunStep2 == rerun /\ RunStep2(NoClick)
RerunStep3 == rerun /\ RunStep3(NoClick)

\* ------------------------------------------------------------ the nodes
\* The two nodes on their own: every model outcome below is given to the
\* node it is meant for.
MaxConcerns == 2
MaxAlternatives == 2

RECURSIVE SeqsUpTo(_, _)
SeqsUpTo(S, n) ==
  IF n = 0 THEN {<<>>}
  ELSE LET shorter == SeqsUpTo(S, n - 1)
       IN shorter \cup {Append(q, x) : q \in {r \in shorter : Len(r) = n - 1}, x \in S}

Verdicts == {PyStr("SUITABLE"), PyStr("NOT_SUITABLE")}
Reasonings ==
  { JStr(<<"Heavy rain all week">>),
    JStr(<<"Wrap code in", "fence", "blocks">>),
    JStr(<<"Start with", "fence", "json", "then the object">>) }
ConcernLists == {JArr(q) : q \in SeqsUpTo({PyStr("storm"), PyStr("wind")}, MaxConcerns)}

\* JSON objects that match the schema of the judge prompt
SchemaDecisions ==
  {DecisionObj(d, r, c, PyStr("Postpone")) :
     d \in Verdicts, r \in Reasonings, c \in ConcernLists}

\* JSON that parses but is not what the judge prompt asked for
OffSchemaDecisions ==
  { EmptyList, JArr(<<PyStr("SUITABLE")>>), PyStr("SUITABLE"), JNull,
    JObj(<<>>, <<>>),
    JObj(<< <<"decision">> >>, <<PyStr("NOT_SUITABLE")>>),
    JObj(<< <<"reasoning">>, <<"concerns">> >>,
         <<PyStr("Windy"), JArr(<<PyStr("wind")>>)>>),
    DecisionObj(JNull, PyStr("Hard to say"), EmptyList, PyStr("Check")),
    DecisionObj(PyStr("not_suitable"), PyStr("Cold"), JNull, PyStr("Wait")) }

\* texts that are not JSON, raw
TruncatedDecision ==
  <<Punct("{"), StrTok(<<"decision">>), Punct(":"), StrTok(<<"NOT_SUITABLE">>),
    Punct(",")>>
StrayFenceDecision ==
  <<Fence, Punct("{"), StrTok(<<"decision">>), Punct(":"), Fence,
    StrTok(<<"NOT_SUITABLE">>), Punct("}")>>
NonJsonTexts ==
  {<<>>, <<Ws>>, Prose, TruncatedDecision, StrayFenceDecision,
   <<Word("json")>>, <<Punct("{"), Word("decision"), Punct("}")>>}

JudgeRequests ==
  {LlmRaises}
    \cup {LlmValue(v, w, sp) :
            v \in SchemaDecisions \cup OffSchemaDecisions, w \in Wrappings,
            sp \in BOOLEAN}
    \cup {LlmRaw(t, w) : t \in NonJsonTexts, w \in Wrappings}

AltElements ==
  { Alt("Rome"), Alt("Nice"),
    AltObj(EmptyStr, PyStr("Anywhere"), PyStr("Mild")),
    JObj(<< <<"city">> >>, <<PyStr("Oslo")>>),
    PyStr("Lisbon") }

\* the values a response may carry under "alternatives"
AlternativesValues ==
  {JArr(q) : q \in SeqsUpTo(AltElements, MaxAlternatives)}
    \cup {PyStr("none"), JNull, Alt("Rome")}

FinderValues ==
  {AlternativesObj(v) : v \in AlternativesValues}
    \cup {JObj(<<>>, <<>>), EmptyList, JArr(<<Alt("Rome")>>), PyStr("Rome"), JNull}

FinderRequests ==
  {LlmRaises}
    \cup {LlmValue(v, w, sp) : v \in FinderValues, w \in Wrappings, sp \in BOOLEAN}
    \cup {LlmRaw(t, w) : t \in NonJsonTexts, w \in Wrappings}

NoCall == [node |-> "idle", out |-> LlmRaises]
NotRun ==
  [ran |-> FALSE, exc |-> "none", decision |-> JUnset, reasoning |-> JUnset,
   concerns |-> JUnset, recommendation |-> JUnset, alternatives |-> JUnset]

\* graph.invoke on the weather decision graph: its one node runs once
RunWeatherDecisionGraph ==
  /\ agent_call.node = "judge"
  /\ ~agent_result.ran
  /\ LET r == analyze_weather_node(agent_call.out)
     IN agent_result' =
          [ran |-> TRUE, exc |-> r.exc, decision |-> r.state.decision,
           reasoning |-> r.state.reasoning, concerns |-> r.state.concerns,
           recommendation |-> r.state.recommendation, alternatives |-> JUnset]
  /\ UNCHANGED <<session_state, screen, rerun, handled, error, calls, agent_call,
                 decided_for, fault, os_environ, sessions>>

\* graph.invoke on the alternatives graph
RunAlternativesGraph ==
  /\ agent_call.node = "finder"
  /\ ~agent_result.ran
  /\ LET r == generate_alternatives_node(agent_call.out)
     IN agent_result' =
          [ran |-> TRUE, exc |-> r.exc, decision |-> JUnset, reasoning |-> JUnset,
           concerns |-> JUnset, recommendation |-> JUnset,
           alternatives |-> r.alternatives]
  /\ UNCHANGED <<session_state, screen, rerun, handled, error, calls, agent_call,
                 decided_for, fault, os_environ, sessions>>

\* the page as the first script run leaves it
InitApp ==
  /\ session_state = InitialSession
  /\ screen = Step0Buttons
  /\ rerun = FALSE
  /\ handled = "none"
  /\ error = "none"
  /\ calls = <<>>
  /\ decided_for = NoAnalysis
  /\ fault = "none"

\* ------------------------------------------------------------ sessions
\* Two browser sessions served by one Streamlit process: each runs its
\* script in a thread of its own, all threads share os.environ. A script
\* run of step 3 calls initialize_tools with the keys of its session and
\* then the three travel-data fetches, which read the SerpApi key from
\* os.environ.
SessionIds == {"A", "B"}
SerperKeys == {"serper-1", "serper-2"}
NoEnviron == [SERPAPI_KEY |-> "unset", session |-> "none"]

\* pc: the call the thread makes next; sent: the api_key of the last
\* SerpApi request made for the session
NewSession(key) == [serper_api_key |-> key, pc |-> "initialize_tools", sent |-> "none"]
OneSession == [s \in SessionIds |-> NewSession("serper-1")]

\* tools.py: os.environ['SERPAPI_KEY'] = serper_key
InitializeTools(s) ==
  /\ sessions[s].pc = "initialize_tools"
  /\ os_environ' = [SERPAPI_KEY |-> sessions[s].serper_api_key, session |-> s]
  /\ sessions' = [sessions EXCEPT ![s].pc = "get_flights_table"]

\* "api_key": os.environ['SERPAPI_KEY'] of the three fetches
Fetch(s, name, next) ==
  /\ sessions[s].pc = name
  /\ sessions' = [sessions EXCEPT ![s].pc = next, ![s].sent = os_environ.SERPAPI_KEY]
  /\ UNCHANGED os_environ

GetFlightsTable(s) == Fetch(s, "get_flights_table", "get_hotels_table")
GetHotelsTable(s) == Fetch(s, "get_hotels_table", "get_attractions_table")
GetAttractionsTable(s) == Fetch(s, "get_attractions_table", "initialize_tools")

AppIdle ==
  UNCHANGED <<session_state, screen, rerun, handled, error, calls, agent_call,
              agent_result, decided_for, fault>>

Init ==
  /\ InitApp /\ agent_call = NoCall /\ agent_result = NotRun
  /\ os_environ = NoEnviron /\ sessions = OneSession

Next ==
  \/ SaveKeysAndContinue
  \/ LetAIAnalyzeWeather
  \/ ChangeAPIKeysStep1
  \/ ChooseAlternative
  \/ TryDifferentDate
  \/ ChooseDifferentCity
  \/ ContinueAnyway
  \/ GoBackStep2
  \/ UpdateAPIKeysStep2
  \/ PlanAnotherTrip
  \/ ChangeAPIKeysStep3
  \/ DownloadItinerary
  \/ GoBackStep3
  \/ UpdateAPIKeysStep3
  \/ RerunStep0
  \/ RerunStep1
  \/ RerunStep2
  \/ RerunStep3

Spec == Init /\ [][Next]_vars

InitAgents ==
  /\ InitApp
  /\ agent_call \in ({[node |-> "judge", out |-> o] : o \in JudgeRequests}
                      \cup {[node |-> "finder", out |-> o] : o \in FinderRequests})
  /\ agent_result = NotRun
  /\ os_environ = NoEnviron /\ sessions = OneSession

NextAgents == RunWeatherDecisionGraph \/ RunAlternativesGraph

SpecAgents == InitAgents /\ [][NextAgents]_vars

\* every assignment of two distinct keys to the two sessions
InitSessions ==
  /\ InitApp /\ agent_call = NoCall /\ agent_result = NotRun
  /\ os_environ = NoEnviron
  /\ sessions \in {f \in [SessionIds -> {NewSession(k) : k \in SerperKeys}] :
                     f["A"] # f["B"]}

NextSessions ==
  \/ \E s \in SessionIds : InitializeTools(s) /\ AppIdle
  \/ \E s \in SessionIds : GetFlightsTable(s) /\ AppIdle
  \/ \E s \in SessionIds : GetHotelsTable(s) /\ AppIdle
  \/ \E s \in SessionIds : GetAttractionsTable(s) /\ AppIdle

SpecSessions == InitSessions /\ [][NextSessions]_vars

\* ------------------------------------------------------------ properties
\* the trip context step 1 stores
TripContext(ss) ==
  <<ss.starting_city, ss.destination_city, ss.travel_date, ss.duration>>

\* C1: from step 1, a press of "Let AI Analyze Weather" moves the workflow
\* to step 2 if and only if the starting city and the destination city
\* typed are both non-empty; when either is empty an error is shown, the
\* step stays 1 and the stored trip context is left as it was.
C1_AnalyzeMovesIffBothCities ==
  [][handled' = "analyze" =>
       /\ session_state.step = 1
       /\ IF Truthy(session_state'.start_city) /\ Truthy(session_state'.dest_city)
          THEN /\ session_state'.step = 2
               /\ error' = "none"
               /\ session_state'.starting_city = session_state'.start_city
               /\ session_state'.destination_city = session_state'.dest_city
          ELSE /\ session_state'.step = 1
               /\ error' = "fill_fields"
               /\ TripContext(session_state') = TripContext(session_state)]_vars

\* a second planning round in which the form was submitted with a city
\* missing, the context of the first round still stored
C1_Witness ==
  /\ handled = "analyze"
  /\ error = "fill_fields"
  /\ session_state.step = 1
  /\ session_state.destination_city = PyStr("Paris")

\* the alternatives the run that handled the click iterated over
StoredCities(ss) ==
  {DictGet(alt, "city", JNull) :
     alt \in {a \in {Iterate(ss.alternative_suggestions)[i] :
                       i \in 1..Len(Iterate(ss.alternative_suggestions))} :
                a.t = "obj"}}

\* C2: selecting an alternative in step 2 replaces destination_city with
\* the alternative's city, clears the stored decision and the stored
\* alternatives, and re-enters step 2 with the step never 1 in between.
C2_SelectClearsDecisionAndAlternatives ==
  [][handled' = "alt" =>
       /\ session_state.step = 2
       /\ session_state'.step = 2
       /\ session_state'.destination_city \in StoredCities(session_state')
       /\ session_state'.agent_decision = NoDecision
       /\ session_state'.alternative_suggestions = EmptyList]_vars

\* C3: "Plan Another Trip" pressed in step 3 returns the workflow to
\* step 1 with the weather snapshot, the decision and the itinerary all
\* absent.
C3_PlanAnotherTripClears ==
  [][handled' = "plan_another" =>
       /\ session_state.step = 3
       /\ session_state'.step = 1
       /\ session_state'.weather_data = JNull
       /\ session_state'.agent_decision = NoDecision
       /\ session_state'.itinerary_data = JNull]_vars

\* the press handled after a trip that went through the mandatory
\* override, its alternatives still stored
C3_Witness ==
  /\ handled = "plan_another"
  /\ session_state.step = 1
  /\ session_state.itinerary_data = JNull
  /\ session_state.alternative_suggestions # EmptyList

RestartHandlers ==
  {"try_date", "diff_city", "plan_another", "go_back", "change_keys", "update_keys"}

\* C4: the step index decreases only as the direct effect of an explicit
\* restart or back action of the user (Try Different Date, Choose
\* Different City, Plan Another Trip, Go Back, Change/Update API Keys);
\* a rerun, a provider fault or a malformed model response never lowers it.
C4_StepDecreasesOnlyByRestart ==
  [][session_state'.step < session_state.step => handled' \in RestartHandlers]_vars

\* the user went back from the fault screen of step 2
C4_Witness ==
  /\ handled = "go_back"
  /\ error = "weather_error"
  /\ session_state.step = 1

\* what the node under test returned, as a decision
ResultDecision ==
  [decision |-> agent_result.decision, reasoning |-> agent_result.reasoning,
   concerns |-> agent_result.concerns,
   recommendation |-> agent_result.recommendation]

JudgeRan == agent_call.node = "judge" /\ agent_result.ran
FinderRan == agent_call.node = "finder" /\ agent_result.ran

C6_NonJsonGivesFallback ==
  JudgeRan =>
    /\ agent_call.out.raises => ResultDecision = FallbackAnalyze
    /\ (~agent_call.out.raises /\ agent_call.out.kind = "raw"
          /\ agent_call.out.raw \in NonJsonTexts)
         => ResultDecision = FallbackParse

\* C7: for a response that is valid JSON matching the schema {decision,
\* reasoning, concerns, recommendation}, each of the four fields of the
\* judge's decision equals the field of the response exactly.
C7_SchemaJsonRoundTrips ==
  (/\ JudgeRan
   /\ agent_call.out.kind = "value"
   /\ agent_call.out.value \in SchemaDecisions
   /\ agent_call.out.wrap \in {"plain", "padded"})
    => /\ agent_result.exc = "none"
       /\ agent_result.decision = agent_call.out.value.kids[1]
       /\ agent_result.reasoning = agent_call.out.value.kids[2]
       /\ agent_result.concerns = agent_call.out.value.kids[3]
       /\ agent_result.recommendation = agent_call.out.value.kids[4]

\* an unfenced response whose reasoning text speaks of code fences
C7_Witness ==
  /\ JudgeRan
  /\ agent_call.out.kind = "value"
  /\ agent_call.out.value \in SchemaDecisions
  /\ agent_call.out.wrap = "padded"
  /\ agent_result.decision = PyStr("NOT_SUITABLE")
  /\ agent_result.reasoning = JStr(<<"Wrap code in", "fence", "blocks">>)
  /\ Len(agent_result.concerns.kids) = MaxConcerns

\* C8: for every JSON content c, a judge response that is c wrapped in
\* code-fence markup (leading fence, optional language tag of any kind,
\* trailing fence) yields the same decision as the response c unwrapped,
\* also when c holds fence characters inside a string value.
C8_FencedParsesAsUnfenced ==
  (/\ JudgeRan
   /\ agent_call.out.kind = "value"
   /\ agent_call.out.wrap \in FencedWrappings)
    => ResultDecision =
         analyze_weather_node(
           LlmValue(agent_call.out.value, "plain", agent_call.out.spaced)).state

\* a complete {city, reason, expected_weather} option
CompleteOption(alt) ==
  /\ alt.t = "obj"
  /\ \A key \in {"city", "reason", "expected_weather"} :
       HasKey(alt, key) /\ DictGet(alt, key, JNull).t = "str"

\* C9: for any Alternative Finder fault (the model call raises, empty or
\* non-JSON response, JSON of the wrong shape) the finder returns an empty
\* list; it never raises to the caller and never returns a partial
\* result, a value that is not a list of complete options.
C9_FinderFaultGivesEmptyList ==
  FinderRan =>
    /\ agent_result.exc = "none"
    /\ agent_result.alternatives.t = "arr"
    /\ \A i \in 1..Len(agent_result.alternatives.kids) :
         CompleteOption(agent_result.alternatives.kids[i])
    /\ (agent_call.out.raises \/ agent_call.out.kind = "raw")
         => agent_result.alternatives = EmptyList

ContextChangeHandlers == {"alt", "try_date", "diff_city", "plan_another"}

\* C10: stale alternatives are cleared on every context change: after
\* selecting an alternative, Try Different Date, Choose Different City,
\* Plan Another Trip or a resubmission of step 1, and whenever the
\* current decision's verdict is SUITABLE, the stored alternative list
\* holds no option of an earlier analysis round.
C10_StaleAlternativesCleared ==
  [][(\/ handled' \in ContextChangeHandlers
      \/ (handled' = "analyze" /\ session_state'.step = 2)
      \/ (/\ ~session_state'.agent_decision.none
          /\ session_state'.agent_decision.decision = PyStr("SUITABLE")))
       => session_state'.alternative_suggestions = EmptyList]_vars

\* C11: no fault leaves the session inconsistent: whenever the script is
\* idle, a stored weather snapshot and a stored decision were computed
\* for the current destination_city and travel_date, also after a
\* weather, judge or tool-initialisation fault that follows a destination
\* change.
C11_StoredDataMatchesContext ==
  ~rerun =>
    /\ session_state.weather_data # JNull
         => session_state.weather_data = WeatherText(session_state.destination_city)
    /\ ~session_state.agent_decision.none
         => decided_for = AnalysisOf(session_state)

JudgeCalled(c) == InCalls("judge", c)
FinderCalled(c) == InCalls("finder", c)
ComposerCalled(c) == InCalls("generate_trip_plan", c)

\* C12: re-entering step 2 for a (destination, date) whose decision is
\* already stored does not invoke the language model again: the judge is
\* called at most once per (destination, date) analysis, across reruns
\* and button presses in step 2.
C12_JudgeOncePerAnalysis ==
  [][JudgeCalled(calls') =>
       \/ session_state.agent_decision.none
       \/ decided_for # AnalysisOf(session_state)]_vars

\* C13: once step 3 has produced the itinerary, the Itinerary Composer is
\* not invoked again by any later event of the session (a re-execution
\* of step 3, Download Itinerary) until the user explicitly restarts.
C13_ComposerOncePerItinerary ==
  [][(/\ session_state.step = 3
      /\ ComposerCalled(calls) /\ error = "none"
      /\ session_state.itinerary_data # JNull
      /\ handled' \notin RestartHandlers)
       => ~ComposerCalled(calls')]_vars

\* C14: sessions are isolated: with two sessions that have different
\* keys, interleaved in any order, every SerpApi request made for a
\* session carries that session's own key.
C14_SessionsUseOwnKeys ==
  \A s \in SessionIds : sessions[s].sent \in {"none", sessions[s].serper_api_key}

\* C15: every pass through step 2 makes its external calls in the order
\* weather fetch, Suitability Judge, Alternative Finder: the judge is
\* invoked only right after the weather fetch of the pass returned, the
\* finder only right after the judge and only when the verdict is
\* NOT_SUITABLE.
C15_Step2CallOrder ==
  \A i \in 1..Len(calls) :
    /\ calls[i] = "judge" => (i > 1 /\ calls[i - 1] = "weather")
    /\ calls[i] = "finder" =>
         /\ i > 1 /\ calls[i - 1] = "judge"
         /\ ~session_state.agent_decision.none
         /\ session_state.agent_decision.decision = PyStr("NOT_SUITABLE")

Step2Faults == {"weather", "initialize_tools", "no_tools"}

\* C16: if the weather fetch or the tool initialisation fails in step 2,
\* the fault is reported, the step does not become 3 and stays 2 unless
\* the user goes back, neither the judge nor the finder is invoked and
\* no decision is stored in that pass.
C16_WeatherFaultStaysInStep2 ==
  [][(session_state.step = 2 /\ fault' \in Step2Faults) =>
       /\ error' \in {"weather_error", "init_failed"}
       /\ session_state'.step # 3
       /\ session_state'.step = 2 \/ handled' \in {"go_back", "update_keys"}
       /\ ~JudgeCalled(calls') /\ ~FinderCalled(calls')
       /\ session_state'.agent_decision = session_state.agent_decision]_vars

\* the weather fetch for a newly chosen destination failed
C16_Witness ==
  /\ fault = "weather"
  /\ session_state.step = 2
  /\ error = "weather_error"
  /\ session_state.destination_city = PyStr("Rome")

\* C17: a fault of the Itinerary Composer, or of a travel-data fetch
\* feeding it, is not replaced by a fabricated itinerary: it propagates,
\* is shown as an error of step 3, and the step remains 3 until the
\* user acts.
C17_ComposerFaultSurfaces ==
  [][(session_state.step = 3 /\ fault' \in {"search", "composer"}) =>
       /\ error' = "trip_error"
       /\ session_state'.itinerary_data = session_state.itinerary_data
       /\ session_state'.step = 3 \/ handled' \in {"go_back", "update_keys"}]_vars

\* generate_trip_plan failed on the first pass through step 3
C17_Witness ==
  /\ fault = "composer"
  /\ session_state.step = 3
  /\ error = "trip_error"
  /\ ComposerCalled(calls)
  /\ session_state.itinerary_data = JNull

\* C18: the step changes from 2 to 3 only when the decision computed for
\* the current destination has verdict SUITABLE or the user pressed
\* Continue Anyway; and whenever the judge returns SUITABLE the workflow
\* moves to step 3 with no user action handled.
C18_Step3OnlyBySuitableOrContinue ==
  [][/\ (session_state.step = 2 /\ session_state'.step = 3) =>
          \/ handled' = "continue"
          \/ /\ handled' = "none"
             /\ JudgeCalled(calls')
             /\ session_state'.agent_decision.decision = PyStr("SUITABLE")
             /\ decided_for' = AnalysisOf(session_state')
     /\ (/\ session_state.step = 2
         /\ JudgeCalled(calls')
         /\ session_state'.agent_decision.decision = PyStr("SUITABLE")) =>
          session_state'.step = 3 /\ handled' = "none"]_vars

\* the automatic move for an alternative the judge found suitable
C18_Witness ==
  /\ session_state.step = 3
  /\ rerun
  /\ handled = "none"
  /\ JudgeCalled(calls)
  /\ session_state.agent_decision.decision = PyStr("SUITABLE")
  /\ session_state.destination_city = PyStr("Rome")

\* the buttons whose handlers lead back to step 1, at once or by way of
\* the key form of step 0
ResetButtons ==
  {"try_date", "diff_city", "go_back", "plan_another", "change_keys", "update_keys"}

\* C19: there is a reset edge back to step 1 from any state: in every
\* reachable state with step 2 or 3, also after tool initialisation
\* returned no tools or a provider fault, some user action is enabled
\* that leads back to step 1; no reachable state is a dead end.
C19_ResetAlwaysAvailable ==
  (session_state.step \in {2, 3} /\ ~rerun) =>
    \E b \in screen : b.id \in ResetButtons

\* C20: in every reachable state the verdict of the stored decision is
\* SUITABLE or NOT_SUITABLE, whatever JSON the model returned.
C20_VerdictIsSuitableOrNot ==
  ~session_state.agent_decision.none =>
    session_state.agent_decision.decision \in Verdicts

\* C21: when the user selects the k-th alternative of the list presented
\* to them, destination_city becomes the city of exactly that presented
\* option, also when the model returns a different list to the finder
\* call of the run that handles the selection.
C21_SelectedAlternativeIsChosen ==
  [][\A b \in screen :
       (b.id = "alt" /\ CanClick(b) /\ RunStep2(b) /\ handled' = "alt")
         => session_state'.destination_city = b.city]_vars

\* C22: whenever the workflow is in step 3 the stored decision is present,
\* so the itinerary view never reads an absent decision; this holds after
\* any sequence of restarts, key changes and faults.
C22_DecisionPresentInStep3 ==
  session_state.step = 3 => ~session_state.agent_decision.none

\* the itinerary view of a second trip, planned after Plan Another Trip
\* had cleared the decision of the first
C22_Witness ==
  /\ session_state.step = 3
  /\ ~rerun
  /\ session_state.itinerary_data # JNull
  /\ ~session_state.agent_decision.none
  /\ session_state.travel_date = "2025-08-02"
  /\ session_state.destination_city = PyStr("Rome")

\* C23: whenever the workflow is in step 2 or 3, starting_city and
\* destination_city are both non-empty: every action after the 1-to-2
\* transition keeps them so, the replacement of the destination by a
\* model-supplied alternative city included.
C23_CitiesNonEmptyAfterStep1 ==
  session_state.step \in {2, 3} =>
    /\ session_state.starting_city.t = "str" /\ Truthy(session_state.starting_city)
    /\ session_state.destination_city.t = "str"
    /\ Truthy(session_state.destination_city)

====
